---- MODULE Spec2Model ----
(***************************************************************************)
(* The handlers of web/views.py (daily_checkin, create_node, shop_view,     *)
(* transfer_coins, buy_land, profile_view, ai_chat, register_view, index)  *)
(* over the tables of web/models.py.                                       *)
(*                                                                         *)
(* Every request is a process.  One action is one database statement of    *)
(* the handler together with the local computation around it; statements   *)
(* of different requests interleave freely.  Outside transaction.atomic()  *)
(* every statement commits on its own (Django autocommit); Model.save()    *)
(* writes every column of the row from the in-memory object.  Inside       *)
(* transaction.atomic() the store is taken to be a row-locking one at READ *)
(* COMMITTED: reads see committed rows, writes stay private to the         *)
(* transaction and hold the row until commit.                              *)
(***************************************************************************)
EXTENDS Integers, FiniteSets, Sequences, TLC

\* ---------------------------------------------------------------- bounds
NReq == 2
NShop == 3
MaxDay == 2

\* ------------------------------------------------------ program constants
DefaultCoins == 100
DefaultLevel == 1
DefaultExperience == 0
CheckinCoins == 10
CheckinExperience == 5
NodeReward == 5

\* ------------------------------------------------------------ fixture data
Accounts == {"A", "B"}
NoUser == "None"
UnknownId == "?"
Reqs == 1..(IF NShop > NReq THEN NShop ELSE NReq)
Days == 1..MaxDay
NoDate == 0
NoNode == 0
UnknownNode == -1

ItemIds == {"item"}
PlotIds == {"plot"}
GameItem == [i \in ItemIds |-> [price |-> 30]]
LandPlot == [p \in PlotIds |-> [price |-> 50]]
InitProfiles == {[A |-> 100, B |-> 20], [A |-> 100, B |-> 100], [A |-> -1, B |-> 100]}
Deletable == {"B"}

VARIABLES
    users,              \* auth User rows
    profile,            \* UserProfile rows, one per account at most (OneToOneField)
    inventory,          \* UserInventory rows
    next_inventory_pk,  \* UserInventory autoincrement
    plot_owner,         \* LandPlot.owner
    nodes,              \* KnowledgeNode rows
    next_node_pk,       \* KnowledgeNode autoincrement
    req,                \* the requests: handler, position, locals
    serial,             \* whether the server takes one request at a time
    limit,              \* how many requests arrive in all
    db0                 \* history: the profile table of the initial state

db == <<users, profile, inventory, next_inventory_pk, plot_owner, nodes, next_node_pk>>
vars == <<users, profile, inventory, next_inventory_pk, plot_owner, nodes, next_node_pk, req, serial, limit, db0>>

\* UserProfile: the columns the handlers read or write
NoProfile == [exists |-> FALSE, coins |-> 0, level |-> 0, experience |-> 0, last_checkin |-> NoDate,
              nickname |-> "", bio |-> "", avatar |-> ""]
NewProfile(c) == [exists |-> TRUE, coins |-> c, level |-> DefaultLevel, experience |-> DefaultExperience,
                  last_checkin |-> NoDate, nickname |-> "", bio |-> "", avatar |-> ""]
DefaultProfile == NewProfile(DefaultCoins)

\* ProfileForm input and the body of an /ai-chat request
NoForm == [nickname |-> "", bio |-> "", avatar |-> ""]
NoBody == [syntax |-> "", type |-> "", message |-> <<>>]

NoRow == [pk |-> 0, user |-> NoUser, item |-> "", quantity |-> 0]
NoPre == [coins |-> 0, rcoins |-> 0, quantity |-> 0, rows |-> {}, owner |-> NoUser]

IdleReq == [kind |-> "idle", user |-> NoUser, pc |-> "idle", target |-> "", raw |-> "", amount |-> 0,
            parent |-> NoNode, post_parent |-> NoNode, node |-> NoNode,
            profile |-> NoProfile, rprofile |-> NoProfile, inventory |-> NoRow,
            owner |-> NoUser, today |-> NoDate, outcome |-> "", wrote |-> FALSE, pre |-> NoPre,
            method |-> "", form |-> NoForm, body |-> NoBody, calls |-> 0, missing |-> {}]

Tables ==
    /\ users = Accounts
    /\ \E f \in InitProfiles :
          profile = [u \in Accounts |-> IF f[u] < 0 THEN NoProfile ELSE NewProfile(f[u])]
    /\ inventory = {}
    /\ next_inventory_pk = 1
    /\ plot_owner = [p \in PlotIds |-> NoUser]
    /\ nodes = {[pk |-> 1, author |-> "A", parent |-> 0]}
    /\ next_node_pk = 2
    /\ req = [r \in Reqs |-> IdleReq]
    /\ db0 = profile

\* requests are served concurrently (several workers)
Init == Tables /\ serial = FALSE /\ limit = NReq

\* requests are served one after the other (a single worker)
InitSeq == Tables /\ serial = TRUE /\ limit = NReq

\* the shop alone, under a heavier load
InitShop == Tables /\ serial = FALSE /\ limit = NShop

\* ---------------------------------------------------------------- helpers

\* the balance a handler's get-or-create of the profile yields
Balance(u) == IF profile[u].exists THEN profile[u].coins ELSE DefaultCoins

InFlight(r) == req[r].pc \notin {"idle", "done"}

\* a request arrives: slots are taken in order, by a logged-in account
Arrives(r, u) ==
    /\ req[r].pc = "idle"
    /\ r <= limit
    /\ r > 1 => req[r - 1].pc # "idle"
    /\ serial => \A q \in Reqs : ~InFlight(q)
    /\ u \in users

\* rows an open transaction has written and not yet committed
LocksProfile(q, u) == req[q].kind = "buy_land" /\ req[q].user = u /\ req[q].pc \in {"set_owner", "commit"}
LocksPlot(q, p) == req[q].kind = "buy_land" /\ req[q].target = p /\ req[q].pc = "commit"
ProfileFree(r, u) == \A q \in Reqs \ {r} : ~LocksProfile(q, u)
PlotFree(r, p) == \A q \in Reqs \ {r} : ~LocksPlot(q, p)

\* the handler returns; its locals are gone
Finish(rec, out) ==
    [rec EXCEPT !.pc = "done", !.outcome = out, !.profile = NoProfile,
                !.rprofile = NoProfile, !.inventory = NoRow,
                !.parent = NoNode, !.post_parent = NoNode]

At(rec, pc) == [rec EXCEPT !.pc = pc]

\* try: UserProfile.objects.get(user=request.user); except DoesNotExist: create.
\* got is the request once it went on with the profile in hand.
Fetched(rec) == [rec EXCEPT !.profile = profile[rec.user]]
GotProfile(rec, got, create) ==
    IF profile[rec.user].exists THEN got ELSE At(rec, create)

\* UserProfile.objects.create(user=request.user): the row with the column
\* defaults; an IntegrityError when the account is gone (foreign key) or a
\* profile of it was created meanwhile (one-to-one)
Created(rec) == [rec EXCEPT !.profile = DefaultProfile]

\* mutant: the row with the defaults is written whether or not one exists
ProfileCreateAlways(r, created) ==
    LET u == req[r].user IN
    IF u \in users
    THEN /\ profile' = [profile EXCEPT ![u] = DefaultProfile]
         /\ req' = [req EXCEPT ![r] = created]
    ELSE /\ req' = [req EXCEPT ![r] = Finish(@, "error")]
         /\ UNCHANGED profile

ProfileCreate(r, created) ==
    LET u == req[r].user IN
    IF u \in users /\ ~profile[u].exists
    THEN /\ profile' = [profile EXCEPT ![u] = DefaultProfile]
         /\ req' = [req EXCEPT ![r] = created]
    ELSE /\ req' = [req EXCEPT ![r] = Finish(@, "error")]
         /\ UNCHANGED profile

\* profile.save(): UPDATE of every column from the in-memory object; with the
\* row gone (account deleted) the INSERT it falls back to breaks the foreign key
ProfileSave(r, u, row, rec) ==
    /\ ProfileFree(r, u)
    /\ IF u \in users /\ profile[u].exists
       THEN /\ profile' = [profile EXCEPT ![u] = row]
            /\ req' = [req EXCEPT ![r] = [rec EXCEPT !.wrote = TRUE]]
       ELSE /\ req' = [req EXCEPT ![r] = Finish(req[r], "error")]
            /\ UNCHANGED profile

\* ------------------------------------------------------------ daily_checkin

CheckinHasProfile(rec) == At(rec, "today")

CheckinGet(r) ==
    \E u \in Accounts :
        /\ Arrives(r, u)
        /\ LET rec == [IdleReq EXCEPT !.kind = "daily_checkin", !.user = u,
                                       !.pre = [NoPre EXCEPT !.coins = Balance(u)]]
           IN req' = [req EXCEPT ![r] =
                        GotProfile(rec, CheckinHasProfile(Fetched(rec)), "create")]
        /\ UNCHANGED <<db, serial, limit, db0>>

CheckinCreate(r) ==
    /\ req[r].kind = "daily_checkin" /\ req[r].pc = "create"
    /\ ProfileCreate(r, CheckinHasProfile(Created(req[r])))
    /\ UNCHANGED <<users, inventory, next_inventory_pk, plot_owner, nodes, next_node_pk, serial, limit, db0>>

\* mutant: the date is never compared
CheckedInTodayNever(p, today) == FALSE

\* if profile.last_checkin == today
CheckedInToday(p, today) == p.last_checkin = today

\* the latest date any request has read off the clock
LastDay == CHOOSE d \in Days : /\ \A q \in Reqs : req[q].today <= d
                               /\ \A e \in Days : (\A q \in Reqs : req[q].today <= e) => d <= e

\* today = timezone.now().date(): the clock never runs backwards;
\* if profile.last_checkin == today: warning
CheckinToday(r) ==
    /\ req[r].kind = "daily_checkin" /\ req[r].pc = "today"
    /\ \E now \in Days :
        /\ now >= LastDay
        /\ req' = [req EXCEPT ![r] =
                     IF CheckedInToday(req[r].profile, now)
                     THEN Finish([@ EXCEPT !.today = now], "already")
                     ELSE [@ EXCEPT !.today = now, !.pc = "save"]]
    /\ UNCHANGED <<db, serial, limit, db0>>

CheckinReward(p, today) ==
    [p EXCEPT !.coins = @ + CheckinCoins, !.experience = @ + CheckinExperience,
              !.last_checkin = today]

CheckinSave(r) ==
    /\ req[r].kind = "daily_checkin" /\ req[r].pc = "save"
    /\ ProfileSave(r, req[r].user, CheckinReward(req[r].profile, req[r].today), Finish(req[r], "ok"))
    /\ UNCHANGED <<users, inventory, next_inventory_pk, plot_owner, nodes, next_node_pk, serial, limit, db0>>

\* ---------------------------------------------------------------- shop_view

Rows(u, i) == {row \in inventory : row.user = u /\ row.item = i}
Quantity(u, i) == IF Rows(u, i) = {} THEN 0 ELSE (CHOOSE row \in Rows(u, i) : TRUE).quantity

\* unique_together = [["user", "item"]]
UniqueTogether(u, i) == Rows(u, i) = {}

\* mutant: the balance is never checked
CannotAffordNever(coins, price) == FALSE

\* if profile.coins < item.price
CannotAfford(coins, price) == coins < price

\* "insufficient balance", or else profile.coins -= item.price
ShopCheck(rec) ==
    IF CannotAfford(rec.profile.coins, GameItem[rec.target].price)
    THEN Finish(rec, "insufficient")
    ELSE [rec EXCEPT !.profile.coins = @ - GameItem[rec.target].price, !.pc = "save"]

\* a GET, or a POST without item_id, only renders; GameItem.objects.get(pk=item_id)
ShopGet(r) ==
    \E u \in Accounts, i \in ItemIds \cup {UnknownId, ""} :
        /\ Arrives(r, u)
        /\ LET rec == [IdleReq EXCEPT !.kind = "shop_view", !.user = u, !.target = i,
                          !.pre = [NoPre EXCEPT !.coins = Balance(u), !.quantity = Quantity(u, i),
                                     !.rows = {row \in inventory : row.user = u}]]
           IN req' = [req EXCEPT ![r] =
                        IF i = "" THEN Finish(rec, "render")
                        ELSE IF i \notin ItemIds THEN Finish(rec, "no_item")
                        ELSE GotProfile(rec, ShopCheck(Fetched(rec)), "create")]
        /\ UNCHANGED <<db, serial, limit, db0>>

ShopCreate(r) ==
    /\ req[r].kind = "shop_view" /\ req[r].pc = "create"
    /\ ProfileCreate(r, ShopCheck(Created(req[r])))
    /\ UNCHANGED <<users, inventory, next_inventory_pk, plot_owner, nodes, next_node_pk, serial, limit, db0>>

ShopSave(r) ==
    /\ req[r].kind = "shop_view" /\ req[r].pc = "save"
    /\ ProfileSave(r, req[r].user, req[r].profile, At(req[r], "inventory_get"))
    /\ UNCHANGED <<users, inventory, next_inventory_pk, plot_owner, nodes, next_node_pk, serial, limit, db0>>

\* get_or_create, the get: the row of (user, item) if there is one
ShopInventoryGet(r) ==
    /\ req[r].kind = "shop_view" /\ req[r].pc = "inventory_get"
    /\ LET found == Rows(req[r].user, req[r].target) IN
       req' = [req EXCEPT ![r] =
                 IF found = {} THEN At(@, "inventory_create")
                 ELSE [@ EXCEPT !.inventory = CHOOSE row \in found : TRUE, !.pc = "inventory_save"]]
    /\ UNCHANGED <<db, serial, limit, db0>>

\* get_or_create, the create with defaults={"quantity": 0}: when the unique
\* constraint refuses the row, the row that is there is fetched instead
ShopInventoryCreate(r) ==
    /\ req[r].kind = "shop_view" /\ req[r].pc = "inventory_create"
    /\ LET u == req[r].user
           i == req[r].target
           row == [pk |-> next_inventory_pk, user |-> u, item |-> i, quantity |-> 0]
       IN IF u \notin users
          THEN /\ req' = [req EXCEPT ![r] = Finish(@, "error")]
               /\ UNCHANGED <<inventory, next_inventory_pk>>
          ELSE IF UniqueTogether(u, i)
          THEN /\ inventory' = inventory \cup {row}
               /\ next_inventory_pk' = next_inventory_pk + 1
               /\ req' = [req EXCEPT ![r] = [@ EXCEPT !.inventory = row, !.pc = "inventory_save"]]
          ELSE /\ req' = [req EXCEPT ![r] =
                            [@ EXCEPT !.inventory = CHOOSE x \in Rows(u, i) : TRUE,
                                      !.pc = "inventory_save"]]
               /\ UNCHANGED <<inventory, next_inventory_pk>>
    /\ UNCHANGED <<users, profile, plot_owner, nodes, next_node_pk, serial, limit, db0>>

\* mutant: the quantity is set, not incremented
OneMoreReset(row) == [row EXCEPT !.quantity = 1]

\* inventory.quantity += 1
OneMore(row) == [row EXCEPT !.quantity = @ + 1]

\* inventory.save()
ShopInventorySave(r) ==
    /\ req[r].kind = "shop_view" /\ req[r].pc = "inventory_save"
    /\ LET mine == req[r].inventory
           row == OneMore(mine)
       IN IF \E x \in inventory : x.pk = mine.pk
          THEN /\ inventory' = {x \in inventory : x.pk # mine.pk} \cup {row}
               /\ req' = [req EXCEPT ![r] = Finish(@, "ok")]
          ELSE /\ req' = [req EXCEPT ![r] = Finish(@, "error")]
               /\ UNCHANGED inventory
    /\ UNCHANGED <<users, profile, next_inventory_pk, plot_owner, nodes, next_node_pk, serial, limit, db0>>

\* ----------------------------------------------------------- transfer_coins

Methods == {"GET", "POST"}
AmountInputs == {"", "2.5", "-5", "0", "30"}
\* the POSTs tried: every amount to the other account, a good amount to
\* oneself, to nobody, to an id that names no account
TransferInputs(u) ==
    {<<rid, raw>> \in (Accounts \cup {UnknownId, ""}) \X AmountInputs :
        (rid \in Accounts /\ rid # u) \/ raw = "30"}

\* int(amount): the integer a decimal literal denotes, ValueError otherwise
IsInt(raw) == raw \in {"-5", "0", "30"}
IntOf(raw) == CASE raw = "-5" -> 0 - 5 [] raw = "0" -> 0 [] raw = "30" -> 30 [] OTHER -> 0

\* mutant: amount < 0 in place of amount <= 0
TransferValidateZero(u, method, rid, raw) ==
    IF method # "POST" THEN "redirect"
    ELSE IF rid = "" \/ raw = "" THEN "bad_param"
    ELSE IF ~IsInt(raw) THEN "bad_format"
    ELSE IF IntOf(raw) < 0 THEN "nonpositive"
    ELSE IF rid \notin users THEN "no_user"
    ELSE IF rid = u THEN "self"
    ELSE "valid"

\* the checks before any profile is touched, in the handler's order
TransferValidate(u, method, rid, raw) ==
    IF method # "POST" THEN "redirect"
    ELSE IF rid = "" \/ raw = "" THEN "bad_param"
    ELSE IF ~IsInt(raw) THEN "bad_format"
    ELSE IF IntOf(raw) <= 0 THEN "nonpositive"
    ELSE IF rid \notin users THEN "no_user"
    ELSE IF rid = u THEN "self"
    ELSE "valid"

TransferStart(r) ==
    \E u \in Accounts, method \in Methods, in \in (Accounts \cup {UnknownId, ""}) \X AmountInputs :
        /\ Arrives(r, u)
        /\ in \in TransferInputs(u)
        /\ LET rid == in[1]
               raw == in[2]
               v == TransferValidate(u, method, rid, raw)
               rec == [IdleReq EXCEPT !.kind = "transfer_coins", !.user = u,
                          !.target = IF method = "POST" THEN rid ELSE "",
                          !.raw = IF method = "POST" THEN raw ELSE "",
                          !.amount = IF method = "POST" /\ IsInt(raw) THEN IntOf(raw) ELSE 0,
                          !.pre = [NoPre EXCEPT !.coins = Balance(u),
                                     !.rcoins = IF rid \in Accounts THEN Balance(rid) ELSE 0]]
           IN req' = [req EXCEPT ![r] = IF v = "valid" THEN At(rec, "sender_get") ELSE Finish(rec, v)]
        /\ UNCHANGED <<db, serial, limit, db0>>

\* if sender_profile.coins < amount: "insufficient balance"
TransferCheck(rec) ==
    IF rec.profile.coins < rec.amount THEN Finish(rec, "insufficient") ELSE At(rec, "recipient_get")

TransferSenderGet(r) ==
    /\ req[r].kind = "transfer_coins" /\ req[r].pc = "sender_get"
    /\ req' = [req EXCEPT ![r] = GotProfile(@, TransferCheck(Fetched(@)), "sender_create")]
    /\ UNCHANGED <<db, serial, limit, db0>>

TransferSenderCreate(r) ==
    /\ req[r].kind = "transfer_coins" /\ req[r].pc = "sender_create"
    /\ ProfileCreate(r, TransferCheck(Created(req[r])))
    /\ UNCHANGED <<users, inventory, next_inventory_pk, plot_owner, nodes, next_node_pk, serial, limit, db0>>

\* sender_profile.coins -= amount; recipient_profile.coins += amount
TransferMove(rec, rprofile) ==
    [rec EXCEPT !.profile.coins = @ - rec.amount,
                !.rprofile = [rprofile EXCEPT !.coins = @ + rec.amount],
                !.pc = "save_sender"]

TransferRecipientGet(r) ==
    /\ req[r].kind = "transfer_coins" /\ req[r].pc = "recipient_get"
    /\ req' = [req EXCEPT ![r] =
                 IF profile[req[r].target].exists
                 THEN TransferMove(@, profile[req[r].target])
                 ELSE At(@, "recipient_create")]
    /\ UNCHANGED <<db, serial, limit, db0>>

\* UserProfile.objects.create(user=recipient)
TransferRecipientCreate(r) ==
    /\ req[r].kind = "transfer_coins" /\ req[r].pc = "recipient_create"
    /\ LET rid == req[r].target IN
       IF rid \in users /\ ~profile[rid].exists
       THEN /\ profile' = [profile EXCEPT ![rid] = DefaultProfile]
            /\ req' = [req EXCEPT ![r] = TransferMove(@, DefaultProfile)]
       ELSE /\ req' = [req EXCEPT ![r] = Finish(@, "error")]
            /\ UNCHANGED profile
    /\ UNCHANGED <<users, inventory, next_inventory_pk, plot_owner, nodes, next_node_pk, serial, limit, db0>>

TransferSaveSender(r) ==
    /\ req[r].kind = "transfer_coins" /\ req[r].pc = "save_sender"
    /\ ProfileSave(r, req[r].user, req[r].profile, At(req[r], "save_recipient"))
    /\ UNCHANGED <<users, inventory, next_inventory_pk, plot_owner, nodes, next_node_pk, serial, limit, db0>>

TransferSaveRecipient(r) ==
    /\ req[r].kind = "transfer_coins" /\ req[r].pc = "save_recipient"
    /\ ProfileSave(r, req[r].target, req[r].rprofile, Finish(req[r], "ok"))
    /\ UNCHANGED <<users, inventory, next_inventory_pk, plot_owner, nodes, next_node_pk, serial, limit, db0>>

\* ----------------------------------------------------------------- buy_land

PlotInputs == PlotIds \cup {UnknownId, ""}

\* plot = LandPlot.objects.get(pk=plot_id); if plot.owner is not None: "already bought"
BuyStart(r) ==
    \E u \in Accounts, method \in Methods, pid \in PlotInputs :
        /\ Arrives(r, u)
        /\ LET rec == [IdleReq EXCEPT !.kind = "buy_land", !.user = u,
                          !.target = IF method = "POST" THEN pid ELSE "",
                          !.pre = [NoPre EXCEPT !.coins = Balance(u),
                                     !.owner = IF pid \in PlotIds THEN plot_owner[pid] ELSE NoUser]]
           IN req' = [req EXCEPT ![r] =
                        IF method # "POST" THEN Finish(rec, "redirect")
                        ELSE IF pid = "" THEN Finish(rec, "bad_param")
                        ELSE IF pid \notin PlotIds THEN Finish(rec, "no_plot")
                        ELSE IF plot_owner[pid] # NoUser THEN Finish(rec, "owned")
                        ELSE At(rec, "profile_get")]
        /\ UNCHANGED <<db, serial, limit, db0>>

\* if profile.coins < plot.price: "insufficient balance"
BuyCheck(rec) ==
    IF rec.profile.coins < LandPlot[rec.target].price
    THEN Finish(rec, "insufficient")
    ELSE At(rec, "refresh")

BuyProfileGet(r) ==
    /\ req[r].kind = "buy_land" /\ req[r].pc = "profile_get"
    /\ req' = [req EXCEPT ![r] = GotProfile(@, BuyCheck(Fetched(@)), "create")]
    /\ UNCHANGED <<db, serial, limit, db0>>

BuyProfileCreate(r) ==
    /\ req[r].kind = "buy_land" /\ req[r].pc = "create"
    /\ ProfileCreate(r, BuyCheck(Created(req[r])))
    /\ UNCHANGED <<users, inventory, next_inventory_pk, plot_owner, nodes, next_node_pk, serial, limit, db0>>

\* with transaction.atomic(): plot.refresh_from_db(); if plot.owner is not None:
\* "already bought by another player"; else profile.coins -= plot.price
BuyRecheck(rec, owner) ==
    IF owner # NoUser
    THEN Finish(rec, "owned_recheck")
    ELSE [rec EXCEPT !.profile.coins = @ - LandPlot[rec.target].price, !.pc = "debit"]

BuyRefresh(r) ==
    /\ req[r].kind = "buy_land" /\ req[r].pc = "refresh"
    /\ req' = [req EXCEPT ![r] = BuyRecheck(@, plot_owner[req[r].target])]
    /\ UNCHANGED <<db, serial, limit, db0>>

\* profile.save() inside the transaction: the row is held, the write is not
\* visible yet; an exception (the account is gone) rolls back, "purchase failed"
BuyDebit(r) ==
    /\ req[r].kind = "buy_land" /\ req[r].pc = "debit"
    /\ ProfileFree(r, req[r].user)
    /\ req' = [req EXCEPT ![r] =
                 IF req[r].user \in users /\ profile[req[r].user].exists
                 THEN At(@, "set_owner")
                 ELSE Finish(@, "failed")]
    /\ UNCHANGED <<db, serial, limit, db0>>

\* plot.owner = request.user; plot.save() inside the transaction
BuySetOwner(r) ==
    /\ req[r].kind = "buy_land" /\ req[r].pc = "set_owner"
    /\ PlotFree(r, req[r].target)
    /\ req' = [req EXCEPT ![r] = [@ EXCEPT !.owner = req[r].user, !.pc = "commit"]]
    /\ UNCHANGED <<db, serial, limit, db0>>

\* mutant: plot.save() is left out
CommittedDebitOnly(rec) ==
    [profile |-> [profile EXCEPT ![rec.user] = rec.profile], plot_owner |-> plot_owner]

\* what leaving the atomic block makes visible, at once
Committed(rec) ==
    [profile |-> [profile EXCEPT ![rec.user] = rec.profile],
     plot_owner |-> [plot_owner EXCEPT ![rec.target] = rec.owner]]

BuyCommit(r) ==
    /\ req[r].kind = "buy_land" /\ req[r].pc = "commit"
    /\ profile' = Committed(req[r]).profile
    /\ plot_owner' = Committed(req[r]).plot_owner
    /\ req' = [req EXCEPT ![r] = Finish([@ EXCEPT !.wrote = TRUE], "ok")]
    /\ UNCHANGED <<users, inventory, next_inventory_pk, nodes, next_node_pk, serial, limit, db0>>

\* -------------------------------------------------------------- create_node

NodePks == {n.pk : n \in nodes}
ParentInputs == {NoNode, UnknownNode} \cup NodePks

\* parent_id from the query string: get_object_or_404; a GET or an invalid
\* form renders the form
NodeStart(r) ==
    \E u \in Accounts, method \in Methods, valid \in BOOLEAN,
       query \in ParentInputs, hidden \in ParentInputs :
        /\ Arrives(r, u)
        /\ LET rec == [IdleReq EXCEPT !.kind = "create_node", !.user = u,
                          !.pre = [NoPre EXCEPT !.coins = Balance(u)]]
           IN req' = [req EXCEPT ![r] =
                        IF query # NoNode /\ query \notin NodePks THEN Finish(rec, "not_found")
                        ELSE IF method # "POST" \/ ~valid THEN Finish(rec, "render")
                        ELSE [rec EXCEPT !.parent = query, !.post_parent = hidden,
                                         !.pc = IF hidden # NoNode THEN "post_parent" ELSE "node_save"]]
        /\ UNCHANGED <<db, serial, limit, db0>>

\* the hidden field parent_id of the POST: get_object_or_404, overrides the query's
NodePostParent(r) ==
    /\ req[r].kind = "create_node" /\ req[r].pc = "post_parent"
    /\ req' = [req EXCEPT ![r] =
                 IF req[r].post_parent \in NodePks
                 THEN [@ EXCEPT !.parent = req[r].post_parent, !.pc = "node_save"]
                 ELSE Finish(@, "not_found")]
    /\ UNCHANGED <<db, serial, limit, db0>>

\* node.save(): the INSERT; author and parent are foreign keys
NodeSave(r) ==
    /\ req[r].kind = "create_node" /\ req[r].pc = "node_save"
    /\ IF req[r].user \in users /\ (req[r].parent = NoNode \/ req[r].parent \in NodePks)
       THEN /\ nodes' = nodes \cup {[pk |-> next_node_pk, author |-> req[r].user, parent |-> req[r].parent]}
            /\ next_node_pk' = next_node_pk + 1
            /\ req' = [req EXCEPT ![r] = [@ EXCEPT !.node = next_node_pk, !.pc = "profile_get"]]
       ELSE /\ req' = [req EXCEPT ![r] = Finish(@, "error")]
            /\ UNCHANGED <<nodes, next_node_pk>>
    /\ UNCHANGED <<users, profile, inventory, next_inventory_pk, plot_owner, serial, limit, db0>>

\* profile.coins += 5
NodeCredit(rec) == [rec EXCEPT !.profile.coins = @ + NodeReward, !.pc = "save"]

NodeProfileGet(r) ==
    /\ req[r].kind = "create_node" /\ req[r].pc = "profile_get"
    /\ req' = [req EXCEPT ![r] = GotProfile(@, NodeCredit(Fetched(@)), "create")]
    /\ UNCHANGED <<db, serial, limit, db0>>

NodeProfileCreate(r) ==
    /\ req[r].kind = "create_node" /\ req[r].pc = "create"
    /\ ProfileCreate(r, NodeCredit(Created(req[r])))
    /\ UNCHANGED <<users, inventory, next_inventory_pk, plot_owner, nodes, next_node_pk, serial, limit, db0>>

NodeProfileSave(r) ==
    /\ req[r].kind = "create_node" /\ req[r].pc = "save"
    /\ ProfileSave(r, req[r].user, req[r].profile, Finish(req[r], "ok"))
    /\ UNCHANGED <<users, inventory, next_inventory_pk, plot_owner, nodes, next_node_pk, serial, limit, db0>>

\* ------------------------------------------------------------- environment

\* on_delete=CASCADE through KnowledgeNode.parent: the nodes that go with S
RECURSIVE Cascade(_)
Cascade(S) ==
    LET more == {n \in nodes : n.parent \in {m.pk : m \in S}} IN
    IF more \subseteq S THEN S ELSE Cascade(S \cup more)

\* an account is deleted (the admin site): profile, inventory and authored
\* nodes go with it (CASCADE), its plots lose their owner (SET_NULL).  The
\* delete waits for the transactions that hold one of these rows.
DeleteAccount(u) ==
    /\ u \in users
    /\ \A q \in Reqs : ~LocksProfile(q, u)
    /\ \A q \in Reqs, p \in PlotIds : plot_owner[p] = u => ~LocksPlot(q, p)
    /\ users' = users \ {u}
    /\ profile' = [profile EXCEPT ![u] = NoProfile]
    /\ inventory' = {row \in inventory : row.user # u}
    /\ plot_owner' = [p \in PlotIds |-> IF plot_owner[p] = u THEN NoUser ELSE plot_owner[p]]
    /\ nodes' = nodes \ Cascade({n \in nodes : n.author = u})
    /\ UNCHANGED <<next_inventory_pk, next_node_pk, req, serial, limit, db0>>

Next ==
    \/ \E r \in Reqs : CheckinGet(r) \/ CheckinCreate(r) \/ CheckinToday(r) \/ CheckinSave(r)
    \/ \E r \in Reqs : ShopGet(r) \/ ShopCreate(r) \/ ShopSave(r)
    \/ \E r \in Reqs : ShopInventoryGet(r) \/ ShopInventoryCreate(r) \/ ShopInventorySave(r)
    \/ \E r \in Reqs : TransferStart(r) \/ TransferSenderGet(r) \/ TransferSenderCreate(r)
    \/ \E r \in Reqs : TransferRecipientGet(r) \/ TransferRecipientCreate(r)
    \/ \E r \in Reqs : TransferSaveSender(r) \/ TransferSaveRecipient(r)
    \/ \E r \in Reqs : BuyStart(r) \/ BuyProfileGet(r) \/ BuyProfileCreate(r) \/ BuyRefresh(r)
    \/ \E r \in Reqs : BuyDebit(r) \/ BuySetOwner(r) \/ BuyCommit(r)
    \/ \E r \in Reqs : NodeStart(r) \/ NodePostParent(r) \/ NodeSave(r)
    \/ \E r \in Reqs : NodeProfileGet(r) \/ NodeProfileCreate(r) \/ NodeProfileSave(r)
    \/ \E u \in Deletable : DeleteAccount(u)

\* every interleaving of the requests' statements
Spec == Init /\ [][Next]_vars

\* one request at a time
SpecSeq == InitSeq /\ [][Next]_vars

\* shop_view requests only
NextShop ==
    \/ \E r \in Reqs : ShopGet(r) \/ ShopCreate(r) \/ ShopSave(r)
    \/ \E r \in Reqs : ShopInventoryGet(r) \/ ShopInventoryCreate(r) \/ ShopInventorySave(r)
    \/ \E u \in Deletable : DeleteAccount(u)

SpecShop == InitShop /\ [][NextShop]_vars

\* ------------------------------------------------------------ profile_view

MaxNickname == 50
LongNickname == "123456789012345678901234567890123456789012345678901"
Forms == {[nickname |-> "neo", bio |-> "hi", avatar |-> "a.png"],
          [nickname |-> LongNickname, bio |-> "hi", avatar |-> ""]}

\* form.is_valid(): nickname = CharField(max_length=50); every field may be blank
IsValid(form) == Len(form.nickname) <= MaxNickname

\* the form's fields set on the instance; without an upload the avatar stays
Edited(p, form) ==
    [p EXCEPT !.nickname = form.nickname, !.bio = form.bio,
              !.avatar = IF form.avatar = "" THEN @ ELSE form.avatar]

\* if request.method == "POST": form = ProfileForm(...); if form.is_valid()
ProfileViewForm(rec) ==
    IF rec.method # "POST" THEN Finish(rec, "render")
    ELSE IF ~IsValid(rec.form) THEN Finish(rec, "invalid")
    ELSE [rec EXCEPT !.profile = Edited(@, rec.form), !.pc = "save"]

ProfileViewGet(r) ==
    \E u \in Accounts, method \in Methods :
        \E form \in IF method = "POST" THEN Forms ELSE {NoForm} :
            /\ Arrives(r, u)
            /\ LET rec == [IdleReq EXCEPT !.kind = "profile_view", !.user = u, !.method = method,
                                           !.form = form,
                                           !.pre = [NoPre EXCEPT !.coins = Balance(u)]]
               IN req' = [req EXCEPT ![r] =
                            GotProfile(rec, ProfileViewForm(Fetched(rec)), "create")]
            /\ UNCHANGED <<db, serial, limit, db0>>

ProfileViewCreate(r) ==
    /\ req[r].kind = "profile_view" /\ req[r].pc = "create"
    /\ ProfileCreate(r, ProfileViewForm(Created(req[r])))
    /\ UNCHANGED <<users, inventory, next_inventory_pk, plot_owner, nodes, next_node_pk, serial, limit, db0>>

\* form.save(): instance.save(), an UPDATE of every column
ProfileViewSave(r) ==
    /\ req[r].kind = "profile_view" /\ req[r].pc = "save"
    /\ ProfileSave(r, req[r].user, req[r].profile, Finish(req[r], "ok"))
    /\ UNCHANGED <<users, inventory, next_inventory_pk, plot_owner, nodes, next_node_pk, serial, limit, db0>>

\* ------------------------------------------------------------------ ai_chat

Space == " "
Bodies ==
    {[syntax |-> "garbage", type |-> "", message |-> <<>>],
     [syntax |-> "array", type |-> "", message |-> <<>>],
     [syntax |-> "object", type |-> "absent", message |-> <<>>],
     [syntax |-> "object", type |-> "number", message |-> <<>>],
     [syntax |-> "object", type |-> "string", message |-> <<>>],
     [syntax |-> "object", type |-> "string", message |-> <<Space, Space>>],
     [syntax |-> "object", type |-> "string", message |-> <<Space, "h", Space>>]}

\* str.strip(): leading and trailing whitespace removed
RECURSIVE Strip(_)
Strip(m) ==
    IF m = <<>> THEN m
    ELSE IF Head(m) = Space THEN Strip(Tail(m))
    ELSE IF m[Len(m)] = Space THEN Strip(SubSeq(m, 1, Len(m) - 1))
    ELSE m

\* data.get("message", "").strip()
Message(body) == Strip(IF body.type = "absent" THEN <<>> ELSE body.message)

\* what stops the request before its profile is read: the method, json.loads,
\* data.get on what is no object, .strip on what is no string, the empty message
ChatReject(method, body) ==
    IF method # "POST" THEN "method"
    ELSE IF body.syntax = "garbage" THEN "bad_json"
    ELSE IF body.syntax # "object" THEN "error"
    ELSE IF body.type \notin {"absent", "string"} THEN "error"
    ELSE IF Message(body) = <<>> THEN "empty"
    ELSE ""

\* the HTTP status of the JsonResponse a finished ai_chat request returns
Status(rec) ==
    CASE rec.outcome = "method" -> 405
      [] rec.outcome \in {"bad_json", "empty"} -> 400
      [] rec.outcome = "error" -> 500
      [] OTHER -> 200

AiChatStart(r) ==
    \E u \in Accounts, method \in Methods :
        \E body \in IF method = "POST" THEN Bodies ELSE {NoBody} :
            /\ Arrives(r, u)
            /\ LET rec == [IdleReq EXCEPT !.kind = "ai_chat", !.user = u, !.method = method,
                                           !.body = body]
                   no == ChatReject(method, body)
               IN req' = [req EXCEPT ![r] =
                            IF no # "" THEN Finish(rec, no)
                            ELSE GotProfile(rec, At(Fetched(rec), "call"), "create")]
            /\ UNCHANGED <<db, serial, limit, db0>>

\* the IntegrityError of create() falls to the outer except: status 500
AiChatCreate(r) ==
    /\ req[r].kind = "ai_chat" /\ req[r].pc = "create"
    /\ ProfileCreate(r, At(Created(req[r]), "call"))
    /\ UNCHANGED <<users, inventory, next_inventory_pk, plot_owner, nodes, next_node_pk, serial, limit, db0>>

\* model.generate_content(prompt): it answers or it raises; both are relayed
AiChatCall(r) ==
    /\ req[r].kind = "ai_chat" /\ req[r].pc = "call"
    /\ \E answered \in BOOLEAN :
          req' = [req EXCEPT ![r] =
                    Finish([@ EXCEPT !.calls = @ + 1],
                           IF answered THEN "reply" ELSE "interrupted")]
    /\ UNCHANGED <<db, serial, limit, db0>>

\* ------------------------------------------------------------ register_view

\* a request of somebody who is not logged in
Visits(r) ==
    /\ req[r].pc = "idle"
    /\ r <= limit
    /\ r > 1 => req[r - 1].pc # "idle"
    /\ serial => \A q \in Reqs : ~InFlight(q)

\* UserCreationForm.is_valid(): the username must be free
RegisterValidate(r) ==
    \E u \in Accounts, method \in Methods :
        /\ Visits(r)
        /\ LET rec == [IdleReq EXCEPT !.kind = "register_view", !.user = u, !.method = method]
           IN req' = [req EXCEPT ![r] =
                        IF method # "POST" THEN Finish(rec, "render")
                        ELSE IF u \in users THEN Finish(rec, "invalid")
                        ELSE At(rec, "insert")]
        /\ UNCHANGED <<db, serial, limit, db0>>

\* form.save(): the INSERT of the User row, committed before post_save is sent.
\* The new account takes a freed name; the requests still running for the
\* account that had the name before are kept apart from it.
RegisterSave(r) ==
    /\ req[r].kind = "register_view" /\ req[r].pc = "insert"
    /\ LET u == req[r].user IN
       /\ \A q \in Reqs \ {r} :
             (InFlight(q) /\ req[q].kind # "register_view") => req[q].user # u /\ req[q].target # u
       /\ IF u \in users
          THEN /\ req' = [req EXCEPT ![r] = Finish(@, "error")]
               /\ UNCHANGED users
          ELSE /\ users' = users \cup {u}
               /\ req' = [req EXCEPT ![r] = At(@, "signal")]
    /\ UNCHANGED <<profile, inventory, next_inventory_pk, plot_owner, nodes, next_node_pk, serial, limit, db0>>

\* signals.create_user_profile: if created: UserProfile.objects.create(user=instance)
CreateUserProfile(r) ==
    /\ req[r].kind = "register_view" /\ req[r].pc = "signal"
    /\ ProfileCreate(r, Finish(req[r], "redirect"))
    /\ UNCHANGED <<users, inventory, next_inventory_pk, plot_owner, nodes, next_node_pk, serial, limit, db0>>

\* -------------------------------------------------------------------- index

\* the accounts the query found without a profile
Profileless(S) == {u \in S : u \in users /\ ~profile[u].exists}

\* latest_users, evaluated with select_related('profile')
IndexGet(r) ==
    /\ Visits(r)
    /\ LET rec == [IdleReq EXCEPT !.kind = "index", !.missing = Profileless(users)]
       IN req' = [req EXCEPT ![r] = At(rec, IF rec.missing = {} THEN "plots" ELSE "users")]
    /\ UNCHANGED <<db, serial, limit, db0>>

\* UserProfile.objects.create(user=user) for the next account of the loop,
\* of latest_users or of the plots' owners; no except around it
IndexCreate(r) ==
    /\ req[r].kind = "index" /\ req[r].pc \in {"users", "owners"}
    /\ \E u \in req[r].missing :
          LET rest == req[r].missing \ {u} IN
          IF u \in users /\ ~profile[u].exists
          THEN /\ profile' = [profile EXCEPT ![u] = DefaultProfile]
               /\ req' = [req EXCEPT ![r] =
                            IF rest # {} THEN [@ EXCEPT !.missing = rest]
                            ELSE IF @.pc = "users" THEN [@ EXCEPT !.missing = {}, !.pc = "plots"]
                            ELSE Finish([@ EXCEPT !.missing = {}], "render")]
          ELSE /\ req' = [req EXCEPT ![r] = Finish([@ EXCEPT !.missing = {}], "error")]
               /\ UNCHANGED profile
    /\ UNCHANGED <<users, inventory, next_inventory_pk, plot_owner, nodes, next_node_pk, serial, limit, db0>>

\* plots, evaluated with select_related('owner', 'owner__profile')
IndexPlots(r) ==
    /\ req[r].kind = "index" /\ req[r].pc = "plots"
    /\ LET owners == Profileless({plot_owner[p] : p \in PlotIds}) IN
       req' = [req EXCEPT ![r] =
                 IF owners = {} THEN Finish(@, "render")
                 ELSE [@ EXCEPT !.missing = owners, !.pc = "owners"]]
    /\ UNCHANGED <<db, serial, limit, db0>>

\* ------------------------------------------------------------ every handler

NextAll ==
    \/ Next
    \/ \E r \in Reqs : ProfileViewGet(r) \/ ProfileViewCreate(r) \/ ProfileViewSave(r)
    \/ \E r \in Reqs : AiChatStart(r) \/ AiChatCreate(r) \/ AiChatCall(r)
    \/ \E r \in Reqs : RegisterValidate(r) \/ RegisterSave(r) \/ CreateUserProfile(r)
    \/ \E r \in Reqs : IndexGet(r) \/ IndexCreate(r) \/ IndexPlots(r)

SpecAll == Init /\ [][NextAll]_vars

\* the statements of a request that has arrived
Continue(r) ==
    \/ CheckinCreate(r) \/ CheckinToday(r) \/ CheckinSave(r)
    \/ ShopCreate(r) \/ ShopSave(r)
    \/ ShopInventoryGet(r) \/ ShopInventoryCreate(r) \/ ShopInventorySave(r)
    \/ TransferSenderGet(r) \/ TransferSenderCreate(r)
    \/ TransferRecipientGet(r) \/ TransferRecipientCreate(r)
    \/ TransferSaveSender(r) \/ TransferSaveRecipient(r)
    \/ BuyProfileGet(r) \/ BuyProfileCreate(r) \/ BuyRefresh(r)
    \/ BuyDebit(r) \/ BuySetOwner(r) \/ BuyCommit(r)
    \/ NodePostParent(r) \/ NodeSave(r)
    \/ NodeProfileGet(r) \/ NodeProfileCreate(r) \/ NodeProfileSave(r)
    \/ ProfileViewCreate(r) \/ ProfileViewSave(r)
    \/ AiChatCreate(r) \/ AiChatCall(r)
    \/ RegisterSave(r) \/ CreateUserProfile(r)
    \/ IndexCreate(r) \/ IndexPlots(r)

\* an account from before the hook is without a profile
InitLegacy == Tables /\ (\E u \in Accounts : ~profile[u].exists) /\ serial = FALSE /\ limit = NReq

\* a worker runs the handler of a request it has taken to its end
SpecLive == InitLegacy /\ [][NextAll]_vars /\ \A r \in Reqs : WF_vars(Continue(r))

\* ------------------------------------------------------------------ claims

Base(u) == IF db0[u].exists THEN db0[u] ELSE DefaultProfile
Started == {r \in Reqs : req[r].pc # "idle"}
Done(r) == req[r].pc = "done"

\* C1: of two buy_land requests on the same plot, unowned at first, by two
\* different accounts that each hold the price, exactly one succeeds, under
\* every interleaving; the other is told the plot is owned and its account's
\* coins are unchanged.
C1_ExactlyOneBuyerSucceeds ==
    \A r1, r2 \in Reqs :
        ( /\ r1 # r2 /\ Started = {r1, r2} /\ Done(r1) /\ Done(r2) /\ users = Accounts
          /\ req[r1].kind = "buy_land" /\ req[r2].kind = "buy_land"
          /\ req[r1].target \in PlotIds /\ req[r2].target = req[r1].target
          /\ req[r1].user # req[r2].user
          /\ Base(req[r1].user).coins >= LandPlot[req[r1].target].price
          /\ Base(req[r2].user).coins >= LandPlot[req[r1].target].price )
        => \E w \in {r1, r2} :
             LET l == CHOOSE x \in {r1, r2} : x # w IN
             /\ req[w].outcome = "ok"
             /\ req[l].outcome \in {"owned", "owned_recheck"}
             /\ Balance(req[l].user) = Base(req[l].user).coins

\* C2: no profile's coins are ever negative, whatever the handlers that ran and
\* however their statements interleaved.
C2_CoinsNeverNegative ==
    \A u \in Accounts : profile[u].exists => profile[u].coins >= 0

C2_Witness ==
    \E r, q \in Reqs :
        /\ req[r].outcome = "insufficient"
        /\ req[q].kind \in {"shop_view", "transfer_coins", "buy_land"}
        /\ req[q].outcome = "ok"
        /\ profile[req[q].user].exists
        /\ profile[req[q].user].coins < req[q].pre.coins

\* C3: two daily_checkin requests of one account on one date, one after the
\* other or interleaved, reward once: coins are up by 10, experience by 5,
\* last_checkin is that date; the check-in that read last_checkin equal to
\* today wrote nothing.
C3_CheckinOncePerDay ==
    \A u \in Accounts, d \in Days :
        LET mine == {r \in Reqs : req[r].kind = "daily_checkin" /\ req[r].user = u}
            read == {r \in mine : req[r].today # NoDate}
        IN ( /\ Started # {} /\ Started = mine /\ u \in users
             /\ \A r \in read : req[r].today = d
             /\ Cardinality({r \in read : Done(r)}) >= 2 )
           => /\ profile[u].coins = Base(u).coins + 10
              /\ profile[u].experience = Base(u).experience + 5
              /\ profile[u].last_checkin = d
              /\ \A r \in read : req[r].outcome = "already" => ~req[r].wrote

C3_Witness ==
    \E r1, r2 \in Reqs :
        /\ r1 # r2 /\ Done(r1) /\ Done(r2)
        /\ req[r1].kind = "daily_checkin" /\ req[r2].kind = "daily_checkin"
        /\ req[r1].user = req[r2].user
        /\ req[r1].today = req[r2].today
        /\ req[r1].outcome = "ok" /\ req[r2].outcome = "ok"

Last(r) == req[r].pc # "idle" /\ \A q \in Reqs : q > r => req[q].pc = "idle"
MyRows(u) == {row \in inventory : row.user = u}

\* C4: a shop purchase of an existing item at price p by an account with
\* balance b leaves balance b - p and one more of the item if b >= p, and
\* balance and inventory as they were if b < p or the item id is unknown; two
\* purchases in a row leave b - 2p and two more.
C4_ShopPurchase ==
    /\ \A r \in Reqs :
        (req[r].kind = "shop_view" /\ Done(r) /\ Last(r) /\ req[r].target # ""
            /\ req[r].user \in users)
        => LET u == req[r].user
               i == req[r].target
               b == req[r].pre.coins
           IN IF i \in ItemIds /\ b >= GameItem[i].price
              THEN /\ req[r].outcome = "ok"
                   /\ Balance(u) = b - GameItem[i].price
                   /\ Quantity(u, i) = req[r].pre.quantity + 1
                   /\ Cardinality(Rows(u, i)) = 1
                   /\ MyRows(u) \ Rows(u, i) = {row \in req[r].pre.rows : row.item # i}
              ELSE /\ req[r].outcome # "ok"
                   /\ Balance(u) = b
                   /\ MyRows(u) = req[r].pre.rows
    /\ \A r1, r2 \in Reqs :
        ( /\ r2 = r1 + 1 /\ Last(r2) /\ Done(r2)
          /\ req[r1].kind = "shop_view" /\ req[r2].kind = "shop_view"
          /\ req[r1].outcome = "ok" /\ req[r2].outcome = "ok"
          /\ req[r1].user = req[r2].user /\ req[r1].target = req[r2].target
          /\ req[r1].user \in users )
        => /\ Balance(req[r1].user) = req[r1].pre.coins - 2 * GameItem[req[r1].target].price
           /\ Quantity(req[r1].user, req[r1].target) = req[r1].pre.quantity + 2

C4_Witness ==
    \E r1, r2 \in Reqs :
        /\ r2 = r1 + 1 /\ Done(r2)
        /\ req[r1].kind = "shop_view" /\ req[r2].kind = "shop_view"
        /\ req[r1].outcome = "ok" /\ req[r2].outcome = "ok"
        /\ req[r1].user = req[r2].user
        /\ Quantity(req[r1].user, req[r1].target) = 2

\* C5: a successful transfer of a from S to R leaves coins(S) + coins(R) as it
\* was, S down by a and R up by a, and the two writes are one atomic unit: no
\* state has the sender debited without the recipient credited.
C5_TransferAtomic ==
    \A r \in Reqs :
        (req[r].kind = "transfer_coins" /\ Started = {r} /\ req[r].target \in Accounts
            /\ users = Accounts)
        => LET S == req[r].user
               R == req[r].target
           IN /\ Balance(S) + Balance(R) = Base(S).coins + Base(R).coins
              /\ (Done(r) /\ req[r].outcome = "ok")
                    => /\ Balance(S) = Base(S).coins - req[r].amount
                       /\ Balance(R) = Base(R).coins + req[r].amount

\* C6: a transfer is rejected, with both balances unchanged, when the amount
\* is <= 0 or no integer, the recipient is the sender or does not exist, or
\* the sender's balance is below the amount; it is accepted in every other case.
C6_TransferRejections ==
    \A r \in Reqs :
        (req[r].kind = "transfer_coins" /\ Done(r) /\ Last(r) /\ req[r].outcome # "redirect"
            /\ users = Accounts)
        => LET S == req[r].user
               R == req[r].target
               raw == req[r].raw
               good == /\ R \in Accounts /\ R # S
                       /\ raw \in {"30"}
                       /\ req[r].pre.coins >= 30
           IN IF good
              THEN /\ req[r].outcome = "ok"
                   /\ Balance(S) = req[r].pre.coins - 30
                   /\ Balance(R) = req[r].pre.rcoins + 30
              ELSE /\ req[r].outcome # "ok"
                   /\ Balance(S) = req[r].pre.coins
                   /\ R \in Accounts => Balance(R) = req[r].pre.rcoins

C6_Witness ==
    /\ \E r \in Reqs : req[r].kind = "transfer_coins" /\ req[r].outcome = "ok"
    /\ \E r \in Reqs : req[r].kind = "transfer_coins" /\ req[r].outcome = "insufficient"

\* C7: a buy_land request on an existing plot of price p by an account with
\* balance b is rejected, leaving b and the owner as they were, if the plot
\* has an owner or b < p, and is accepted otherwise, leaving b - p and the
\* buyer as owner; at no point is one of the two written without the other.
C7_BuyLand ==
    \A r \in Reqs :
        (req[r].kind = "buy_land" /\ Last(r) /\ req[r].target \in PlotIds /\ users = Accounts)
        => LET u == req[r].user
               p == req[r].target
               b == req[r].pre.coins
               accept == req[r].pre.owner = NoUser /\ b >= LandPlot[p].price
           IN /\ Done(r) => (req[r].outcome = "ok" <=> accept)
              /\ IF Done(r) /\ req[r].outcome = "ok"
                 THEN Balance(u) = b - LandPlot[p].price /\ plot_owner[p] = u
                 ELSE Balance(u) = b /\ plot_owner[p] = req[r].pre.owner

C7_Witness ==
    /\ \E r \in Reqs : req[r].kind = "buy_land" /\ req[r].outcome = "ok"
    /\ \E r \in Reqs : req[r].kind = "buy_land" /\ req[r].outcome = "owned"

\* C8: once a plot has an owner, no buy_land request changes or clears it; the
\* owner becomes absent again only when the owning account is deleted.
C8_OwnerSetOnce ==
    [][\A p \in PlotIds :
          plot_owner[p] # NoUser =>
             \/ plot_owner'[p] = plot_owner[p]
             \/ plot_owner'[p] = NoUser /\ plot_owner[p] \notin users']_vars

\* C9: a create_node request that persists a node raises the author's coins
\* by exactly 5, whatever runs concurrently on the author's profile; one that
\* persists no node leaves them unchanged.
C9_NodeReward ==
    \A u \in Accounts :
        ( /\ Started # {} /\ u \in users
          /\ \A r \in Started : req[r].kind = "create_node" /\ req[r].user = u /\ Done(r) )
        => Balance(u) = Base(u).coins + 5 * Cardinality({r \in Started : req[r].node # NoNode})

\* C10: there is at most one inventory entry per (account, item), also after
\* concurrent first purchases; entries are created only by a purchase, no
\* handler deletes one, and no quantity ever decreases.
C10_Inventory ==
    [][ /\ \A u \in Accounts, i \in ItemIds : Cardinality({row \in inventory' : row.user = u /\ row.item = i}) <= 1
        /\ \A row \in inventory' :
              (\A old \in inventory : old.pk # row.pk)
                 => \E r \in Reqs : req[r].kind = "shop_view" /\ req[r].pc = "inventory_create"
                                     /\ req'[r].pc = "inventory_save" /\ req[r].user = row.user
        /\ \A old \in inventory :
              old.user \in users' =>
                 \E row \in inventory' : row.pk = old.pk /\ row.quantity >= old.quantity ]_vars

\* request r has found account u without a profile and is about to create one
Needs(r, u) ==
    \/ req[r].pc \in {"create", "sender_create", "signal"} /\ req[r].user = u
    \/ req[r].pc = "recipient_create" /\ req[r].target = u

\* C11: no account ever has more than one profile and every account
\* eventually has one: the hook of the account's creation and every handler
\* that needs a profile create it, with the default values, only when there is
\* none; an existing profile is never replaced, reset or dropped while its
\* account lives, also when two handlers race for a profile-less account.
C11_OneProfile ==
    /\ [](\A u \in Accounts : profile[u].exists => u \in users)
    /\ [][\A u \in Accounts :
            /\ (profile[u].exists /\ u \in users') => profile'[u].exists
            /\ (~profile[u].exists /\ profile'[u].exists)
                  => u \in users /\ profile'[u] = DefaultProfile
            /\ (profile[u].exists /\ profile'[u] # profile[u])
                  => \A r \in Reqs :
                        (Needs(r, u) \/ (req[r].kind = "index" /\ u \in req[r].missing))
                           => req'[r] = req[r]]_vars
    /\ \A r \in Reqs, u \in Accounts :
          Needs(r, u) ~> (profile[u].exists \/ u \notin users)

C11_Witness ==
    \E r1, r2 \in Reqs, u \in users :
        /\ r1 # r2 /\ ~db0[u].exists /\ profile[u].exists
        /\ req[r1].user = u /\ req[r2].user = u
        /\ Done(r1) /\ Done(r2)
        /\ req[r1].outcome # "error" /\ req[r2].outcome = "error"
        /\ req[r1].kind # "register_view" /\ req[r2].kind # "register_view"

WellFormed(body) == body.syntax = "object" /\ body.type \in {"absent", "string"}

\* C12: an authenticated POST to /ai-chat with an empty message gets status
\* 400 and the service is not called; with a message that is not empty the
\* service is called exactly once and the status is 200, whether the service
\* answers or fails; a status other than 200 comes only from a malformed body
\* (or an empty message).
C12_AiChat ==
    \A r \in Reqs :
        (req[r].kind = "ai_chat" /\ req[r].outcome # "method")
        => /\ req[r].calls <= 1
           /\ Done(r) =>
                IF ~WellFormed(req[r].body)
                THEN req[r].calls = 0 /\ Status(req[r]) # 200
                ELSE IF Message(req[r].body) = <<>>
                THEN req[r].calls = 0 /\ Status(req[r]) = 400
                ELSE /\ req[r].calls = 1
                     /\ Status(req[r]) = 200
                     /\ req[r].outcome \in {"reply", "interrupted"}

RECURSIVE ItemsWorth(_)
ItemsWorth(S) ==
    IF S = {} THEN 0
    ELSE LET row == CHOOSE x \in S : TRUE
         IN GameItem[row.item].price * row.quantity + ItemsWorth(S \ {row})

RECURSIVE PlotsWorth(_)
PlotsWorth(P) ==
    IF P = {} THEN 0
    ELSE LET p == CHOOSE x \in P : TRUE
         IN LandPlot[p].price + PlotsWorth(P \ {p})

Worth(u) == ItemsWorth(MyRows(u)) + PlotsWorth({p \in PlotIds : plot_owner[p] = u})

\* C13: while only shop purchases and land purchases of one account run,
\* however interleaved, what the account holds (items at their price times
\* the quantity, plots at their price) is never worth more than what its
\* coins went down by.
C13_PaidFor ==
    \A u \in Accounts :
        ( /\ Started # {} /\ u \in users
          /\ \A r \in Started : req[r].kind \in {"shop_view", "buy_land"} /\ req[r].user = u )
        => Worth(u) <= Base(u).coins - Balance(u)

\* what request q alone does to the coins of account u
Delta(q, u) ==
    CASE req[q].kind = "daily_checkin" /\ req[q].outcome = "ok" -> CheckinCoins
      [] req[q].kind = "create_node" /\ req[q].node # NoNode -> NodeReward
      [] req[q].kind = "shop_view" /\ req[q].outcome = "ok" -> 0 - GameItem[req[q].target].price
      [] req[q].kind = "buy_land" /\ req[q].outcome = "ok" -> 0 - LandPlot[req[q].target].price
      [] req[q].kind = "transfer_coins" /\ req[q].outcome = "ok" /\ req[q].user = u -> 0 - req[q].amount
      [] req[q].kind = "transfer_coins" /\ req[q].outcome = "ok" /\ req[q].target = u -> req[q].amount
      [] OTHER -> 0

CheckedIn(q) == req[q].kind = "daily_checkin" /\ req[q].outcome = "ok"

\* C14: a profile edit changes nickname, bio and avatar only: after the edit
\* and a concurrent daily_checkin, create_node, purchase, transfer or land
\* purchase on the same profile have both ended, coins, level, experience and
\* last_checkin are what the other request alone leaves.
C14_EditFrame ==
    \A r, q \in Reqs :
        ( /\ r # q /\ Started = {r, q} /\ Done(r) /\ Done(q)
          /\ req[r].kind = "profile_view" /\ req[r].method = "POST"
          /\ req[q].kind \in {"daily_checkin", "create_node", "shop_view", "transfer_coins", "buy_land"}
          /\ req[q].user = req[r].user \/ (req[q].kind = "transfer_coins" /\ req[q].target = req[r].user)
          /\ users = Accounts /\ db0[req[r].user].exists )
        => LET u == req[r].user IN
           /\ profile[u].coins = Base(u).coins + Delta(q, u)
           /\ profile[u].level = Base(u).level
           /\ profile[u].experience = Base(u).experience + (IF CheckedIn(q) /\ req[q].user = u THEN CheckinExperience ELSE 0)
           /\ profile[u].last_checkin = (IF CheckedIn(q) /\ req[q].user = u THEN req[q].today ELSE Base(u).last_checkin)
====
